---- MODULE Spec2Model ----
(***************************************************************************)
(* Model of src/lambda_function.py: the Cognito claim extractor Lambda.    *)
(*                                                                         *)
(* A Python value x is the pair <<type, payload>>: x[1] is its type and    *)
(* x[2] its payload.  A str is the sequence of its code points, bytes are  *)
(* sequences of 0..255.  A dict                                            *)
(* whose keys arrive as data (HTTP headers, the token payload) is the      *)
(* sequence of its <<key, value>> items in insertion order; the request    *)
(* context, whose keys the code names literally, is a record whose fields  *)
(* are Absent when the key is not in the dict.                             *)
(***************************************************************************)
EXTENDS Integers, Sequences, FiniteSets, TLC

(***************************************************************************)
(* Characters and strings                                                  *)
(***************************************************************************)
\* The printable ASCII characters, code points 32..126, in order (code point 96
\* is spelled out: the lexer takes no backtick in a string).
Printable ==
  <<
     " ", "!", "\"", "#", "$", "%", "&", "'", "(", ")", "*", "+", ",", "-", ".", "/",
     "0", "1", "2", "3", "4", "5", "6", "7", "8", "9", ":", ";", "<", "=", ">", "?",
     "@", "A", "B", "C", "D", "E", "F", "G", "H", "I", "J", "K", "L", "M", "N", "O",
     "P", "Q", "R", "S", "T", "U", "V", "W", "X", "Y", "Z", "[", "\\", "]", "^", "_",
     "backtick", "a", "b", "c", "d", "e", "f", "g", "h", "i", "j", "k", "l", "m", "n", "o",
     "p", "q", "r", "s", "t", "u", "v", "w", "x", "y", "z", "{", "|", "}", "~"
  >>

\* ord(c) of a printable character.
Ord(c) == 31 + (CHOOSE i \in 1..Len(Printable) : Printable[i] = c)

\* The str whose characters are given one by one.
Str(cs) == [i \in 1..Len(cs) |-> Ord(cs[i])]

\* The least element of a non-empty set of integers.
Min(S) == CHOOSE i \in S : \A j \in S : i <= j

\* c * n
Repeat(c, n) == [i \in 1..n |-> c]

(***************************************************************************)
(* Python values                                                           *)
(***************************************************************************)
None == <<"none", 0>>
\* Marks a key that is not in a dict (never a value the code sees).
Absent == <<"absent", 0>>
PyBool(b) == <<"bool", b>>
PyInt(n) == <<"int", n>>
PyStr(s) == <<"str", s>>
PyList(xs) == <<"list", xs>>
PyDict(items) == <<"dict", items>>

\* Python truthiness: bool(x).
Truthy(x) ==
  CASE x[1] = "none" -> FALSE
    [] x[1] = "bool" -> x[2]
    [] x[1] = "int" -> x[2] # 0
    [] x[1] \in {"str", "list", "dict"} -> Len(x[2]) > 0
    [] x[1] = "response" -> x[2] < 400
    [] OTHER -> TRUE

\* key in d, for a dict of items.
HasKey(d, k) == \E i \in 1..Len(d[2]) : d[2][i][1] = k

\* d[k]
Lookup(d, k) == d[2][CHOOSE i \in 1..Len(d[2]) : d[2][i][1] = k][2]

\* d.get(k)
DictGet(d, k) == IF HasKey(d, k) THEN Lookup(d, k) ELSE None

\* d[k] = x on the item sequence: a key already there keeps its position.
DictSet(items, k, x) ==
  IF \E i \in 1..Len(items) : items[i][1] = k
    THEN [i \in 1..Len(items) |-> IF items[i][1] = k THEN <<k, x>> ELSE items[i]]
    ELSE Append(items, <<k, x>>)

\* x in xs, for a list: some element equals x.
In(x, xs) == \E i \in 1..Len(xs) : xs[i] = x

(***************************************************************************)
(* str.split, str.strip, str.lower                                         *)
(***************************************************************************)
\* s.split(sep) for a one-character separator: the pieces between the
\* separators, one more than there are separators.
Split(s, sep) ==
  LET at == {i \in 1..Len(s) : s[i] = sep}
      \* the position of the k-th separator; 0 and Len(s) + 1 bracket them
      cut == [k \in 0..(Cardinality(at) + 1) |->
                IF k = 0 THEN 0
                ELSE IF k > Cardinality(at) THEN Len(s) + 1
                ELSE CHOOSE i \in at : Cardinality({j \in at : j < i}) = k - 1]
  IN [k \in 1..(Cardinality(at) + 1) |-> SubSeq(s, cut[k - 1] + 1, cut[k] - 1)]

\* The ASCII characters str.strip() removes.
Whitespace == {9, 10, 11, 12, 13, 28, 29, 30, 31, 32}

\* s.strip()
Strip(s) ==
  LET keep == {i \in 1..Len(s) : s[i] \notin Whitespace}
  IN IF keep = {} THEN <<>>
     ELSE SubSeq(s, Min(keep), CHOOSE i \in keep : \A j \in keep : i >= j)

\* s.lower() on ASCII.
Lower(s) == [i \in 1..Len(s) |-> IF s[i] >= 65 /\ s[i] <= 90 THEN s[i] + 32 ELSE s[i]]

(***************************************************************************)
(* base64.urlsafe_b64decode (binascii.a2b_base64, not strict)              *)
(***************************************************************************)
\* The 6-bit value of a character of the standard alphabet, 64 for any other.
B64Value(c) ==
  IF c >= 65 /\ c <= 90 THEN c - 65
  ELSE IF c >= 97 /\ c <= 122 THEN c - 71
  ELSE IF c >= 48 /\ c <= 57 THEN c + 4
  ELSE IF c = 43 THEN 62
  ELSE IF c = 47 THEN 63
  ELSE 64

\* urlsafe translation: '-' -> '+', '_' -> '/'.
UrlsafeTranslate(s) ==
  [i \in 1..Len(s) |-> IF s[i] = 45 THEN 43 ELSE IF s[i] = 95 THEN 47 ELSE s[i]]

\* The decoder's loop variables before the first character.
A2bStart == [quad_pos |-> 0, pads |-> 0, leftchar |-> 0, out |-> <<>>, done |-> FALSE]

\* One turn of the decoding loop on character c: a '=' that completes the
\* quad ends the parse, any other '=' and every character outside the
\* alphabet is skipped, a data character adds its 6 bits.
A2bStep(st, c) ==
  IF st.done THEN st
  ELSE IF c = 61 THEN
    IF st.quad_pos >= 2 /\ st.quad_pos + st.pads + 1 >= 4 THEN [st EXCEPT !.done = TRUE]
    ELSE IF st.quad_pos >= 2 THEN [st EXCEPT !.pads = @ + 1]
    ELSE st
  ELSE LET ch == B64Value(c) IN
    IF ch >= 64 THEN st
    ELSE CASE st.quad_pos = 0 ->
                [st EXCEPT !.quad_pos = 1, !.pads = 0, !.leftchar = ch]
           [] st.quad_pos = 1 ->
                [st EXCEPT !.quad_pos = 2, !.pads = 0, !.leftchar = ch % 16,
                           !.out = Append(@, st.leftchar * 4 + ch \div 16)]
           [] st.quad_pos = 2 ->
                [st EXCEPT !.quad_pos = 3, !.pads = 0, !.leftchar = ch % 4,
                           !.out = Append(@, st.leftchar * 16 + ch \div 4)]
           [] OTHER ->
                [st EXCEPT !.quad_pos = 0, !.pads = 0, !.leftchar = 0,
                           !.out = Append(@, st.leftchar * 64 + ch)]

RECURSIVE A2bLoop(_, _, _, _)
\* The loop over s[lo..hi] from loop variables st: the first half, then,
\* unless the parse has ended, the second (halved to keep evaluation shallow).
A2bLoop(s, lo, hi, st) ==
  IF lo > hi THEN st
  ELSE IF lo = hi THEN A2bStep(st, s[lo])
  ELSE LET mid == (lo + hi) \div 2
           left == A2bLoop(s, lo, mid, st)
       IN IF left.done THEN left ELSE A2bLoop(s, mid + 1, hi, left)

\* The decoder's result from its loop variables after the last character: an
\* unfinished quad is an error.
A2bResult(st) == [ok |-> st.done \/ st.quad_pos = 0, bytes |-> st.out]

\* binascii.a2b_base64(s): [ok, bytes].
A2bBase64(s) == A2bResult(A2bLoop(s, 1, Len(s), A2bStart))

\* base64.urlsafe_b64decode(s): [ok, bytes]; a non-ASCII str cannot be encoded.
UrlsafeB64decode(s) ==
  IF \E i \in 1..Len(s) : s[i] > 127 THEN [ok |-> FALSE, bytes |-> <<>>]
  ELSE A2bBase64(UrlsafeTranslate(s))

(***************************************************************************)
(* bytes.decode("utf-8")                                                   *)
(***************************************************************************)
\* The decoder before the first byte: need continuation bytes are still due,
\* the next of them within lo..hi, cp the code point so far.
Utf8Start == [ok |-> TRUE, need |-> 0, cp |-> 0, lo |-> 128, hi |-> 191, chars |-> <<>>]

\* One byte b: ASCII, a lead byte of a 2-, 3- or 4-byte sequence (overlong
\* forms, surrogates and code points above U+10FFFF are errors), or a
\* continuation byte.
Utf8Step(st, b) ==
  IF ~st.ok THEN st
  ELSE IF st.need > 0 THEN
    IF b < st.lo \/ b > st.hi THEN [st EXCEPT !.ok = FALSE]
    ELSE LET cp == st.cp * 64 + (b - 128)
         IN IF st.need = 1
              THEN [st EXCEPT !.need = 0, !.cp = 0, !.lo = 128, !.hi = 191,
                              !.chars = Append(@, cp)]
              ELSE [st EXCEPT !.need = @ - 1, !.cp = cp, !.lo = 128, !.hi = 191]
  ELSE IF b < 128 THEN [st EXCEPT !.chars = Append(@, b)]
  ELSE IF b >= 194 /\ b <= 223 THEN [st EXCEPT !.need = 1, !.cp = b - 192]
  ELSE IF b >= 224 /\ b <= 239 THEN
    [st EXCEPT !.need = 2, !.cp = b - 224,
               !.lo = IF b = 224 THEN 160 ELSE 128, !.hi = IF b = 237 THEN 159 ELSE 191]
  ELSE IF b >= 240 /\ b <= 244 THEN
    [st EXCEPT !.need = 3, !.cp = b - 240,
               !.lo = IF b = 240 THEN 144 ELSE 128, !.hi = IF b = 244 THEN 143 ELSE 191]
  ELSE [st EXCEPT !.ok = FALSE]

RECURSIVE Utf8Loop(_, _, _, _)
\* The decoder over b[lo..hi] from st: the first half, then, unless a byte
\* was invalid, the second.
Utf8Loop(b, lo, hi, st) ==
  IF lo > hi THEN st
  ELSE IF lo = hi THEN Utf8Step(st, b[lo])
  ELSE LET mid == (lo + hi) \div 2
           left == Utf8Loop(b, lo, mid, st)
       IN IF ~left.ok THEN left ELSE Utf8Loop(b, mid + 1, hi, left)

\* The decoder's result after the last byte: a sequence cut short is an error.
Utf8Result(st) == [ok |-> st.ok /\ st.need = 0, chars |-> st.chars]

\* decoded_bytes.decode("utf-8"): [ok, chars].
Utf8Decode(b) == Utf8Result(Utf8Loop(b, 1, Len(b), Utf8Start))

(***************************************************************************)
(* json.loads, for the JSON the model's inputs hold: objects, arrays,      *)
(* strings without escapes, integers, true, false, null                    *)
(***************************************************************************)
Fail == [ok |-> FALSE, val |-> None, next |-> 0]
Parsed(x, i) == [ok |-> TRUE, val |-> x, next |-> i]

RECURSIVE SkipWs(_, _)
\* WHITESPACE.match(s, i).end()
SkipWs(s, i) ==
  IF i <= Len(s) /\ s[i] \in {32, 9, 10, 13} THEN SkipWs(s, i + 1) ELSE i

\* s[i:i+len(w)] == w
StartsWith(s, i, w) ==
  i + Len(w) - 1 <= Len(s) /\ SubSeq(s, i, i + Len(w) - 1) = w

IsDigit(c) == c >= 48 /\ c <= 57

RECURSIVE DigitsEnd(_, _)
\* The index after the run of digits that starts at i.
DigitsEnd(s, i) == IF i <= Len(s) /\ IsDigit(s[i]) THEN DigitsEnd(s, i + 1) ELSE i

RECURSIVE DigitsValue(_, _, _, _)
DigitsValue(s, i, j, acc) ==
  IF i >= j THEN acc ELSE DigitsValue(s, i + 1, j, acc * 10 + (s[i] - 48))

\* The number at i: -?(0|[1-9][0-9]*); fractions and exponents are not modelled.
ScanNumber(s, i) ==
  LET neg == i <= Len(s) /\ s[i] = 45
      d == IF neg THEN i + 1 ELSE i
  IN IF d > Len(s) \/ ~IsDigit(s[d]) THEN Fail
     ELSE LET e == IF s[d] = 48 THEN d + 1 ELSE DigitsEnd(s, d)
              n == DigitsValue(s, d, e, 0)
          IN Parsed(PyInt(IF neg THEN 0 - n ELSE n), e)

\* The index of the closing quote of the string whose body starts at i, 0 when
\* it is unterminated or holds a control character; escapes are not modelled.
StringEnd(s, i) ==
  LET stops == {j \in i..Len(s) : s[j] = 34 \/ s[j] < 32 \/ s[j] = 92}
  IN IF stops = {} THEN 0
     ELSE IF s[Min(stops)] = 34 THEN Min(stops) ELSE 0

\* The string whose opening quote is at i - 1.
ScanString(s, i) ==
  LET e == StringEnd(s, i)
  IN IF e = 0 THEN Fail ELSE Parsed(PyStr(SubSeq(s, i, e - 1)), e + 1)

RECURSIVE ScanOnce(_, _)
RECURSIVE ScanArray(_, _, _)
RECURSIVE ScanObject(_, _, _)

\* scan_once(s, i): the value that starts at i.
ScanOnce(s, i) ==
  IF i > Len(s) THEN Fail
  ELSE IF s[i] = 34 THEN ScanString(s, i + 1)
  ELSE IF s[i] = 123 THEN
    LET j == SkipWs(s, i + 1)
    IN IF j <= Len(s) /\ s[j] = 125 THEN Parsed(PyDict(<<>>), j + 1)
       ELSE ScanObject(s, j, <<>>)
  ELSE IF s[i] = 91 THEN
    LET j == SkipWs(s, i + 1)
    IN IF j <= Len(s) /\ s[j] = 93 THEN Parsed(PyList(<<>>), j + 1)
       ELSE ScanArray(s, j, <<>>)
  ELSE IF StartsWith(s, i, Str(<<"n", "u", "l", "l">>)) THEN Parsed(None, i + 4)
  ELSE IF StartsWith(s, i, Str(<<"t", "r", "u", "e">>)) THEN Parsed(PyBool(TRUE), i + 4)
  ELSE IF StartsWith(s, i, Str(<<"f", "a", "l", "s", "e">>)) THEN Parsed(PyBool(FALSE), i + 5)
  ELSE ScanNumber(s, i)

\* JSONArray from its next element at i, xs the elements read so far.
ScanArray(s, i, xs) ==
  LET r == ScanOnce(s, i)
  IN IF ~r.ok THEN Fail
     ELSE LET j == SkipWs(s, r.next)
              ys == Append(xs, r.val)
          IN IF j > Len(s) THEN Fail
             ELSE IF s[j] = 93 THEN Parsed(PyList(ys), j + 1)
             ELSE IF s[j] # 44 THEN Fail
             ELSE ScanArray(s, SkipWs(s, j + 1), ys)

\* JSONObject from its next key at i, items the pairs read so far.
ScanObject(s, i, items) ==
  IF i > Len(s) \/ s[i] # 34 THEN Fail
  ELSE LET k == ScanString(s, i + 1)
       IN IF ~k.ok THEN Fail
          ELSE LET c == SkipWs(s, k.next)
               IN IF c > Len(s) \/ s[c] # 58 THEN Fail
                  ELSE LET r == ScanOnce(s, SkipWs(s, c + 1))
                       IN IF ~r.ok THEN Fail
                          ELSE LET j == SkipWs(s, r.next)
                                   more == DictSet(items, k.val[2], r.val)
                               IN IF j > Len(s) THEN Fail
                                  ELSE IF s[j] = 125 THEN Parsed(PyDict(more), j + 1)
                                  ELSE IF s[j] # 44 THEN Fail
                                  ELSE ScanObject(s, SkipWs(s, j + 1), more)

\* The end of json.loads(s), r the value scanned at the start of s: anything
\* after the value but whitespace is an error.
LoadsResult(s, r) ==
  IF r.ok /\ SkipWs(s, r.next) = Len(s) + 1 THEN [ok |-> TRUE, val |-> r.val]
  ELSE [ok |-> FALSE, val |-> None]

\* json.loads(s): [ok, val].
JsonLoads(s) == LoadsResult(s, ScanOnce(s, SkipWs(s, 1)))

(***************************************************************************)
(* decode_jwt_payload                                                      *)
(***************************************************************************)
\* Mutant: the padding step left out.
PadPayloadPart_NoPadding(payload_part) == payload_part

\* Mutant: the "padding != 4" test left out, so an aligned segment gets "====".
PadPayloadPart_AlwaysPads(payload_part) ==
  payload_part \o Repeat(61, 4 - (Len(payload_part) % 4))

\* Lines 22-24: the payload segment with its base64 padding restored.
PadPayloadPart(payload_part) ==
  LET padding == 4 - (Len(payload_part) % 4)
  IN IF padding # 4 THEN payload_part \o Repeat(61, padding) ELSE payload_part

\* Line 28, json.loads: the payload, None when it raised.
DecodeText(text) ==
  IF ~text.ok THEN None
  ELSE LET payload == JsonLoads(text.chars)
       IN IF payload.ok THEN payload.val ELSE None

\* Line 28, decode("utf-8"), from the bytes line 27 produced.
DecodeBytes(decoded_bytes) ==
  IF ~decoded_bytes.ok THEN None ELSE DecodeText(Utf8Decode(decoded_bytes.bytes))

\* Mutant: "len(parts) < 3" for "len(parts) != 3".
DecodeParts_AtLeastThreeParts(parts) ==
  IF Len(parts) < 3 THEN None
  ELSE DecodeBytes(UrlsafeB64decode(PadPayloadPart(parts[2])))

\* Lines 14-30, from the parts of the token.
DecodeParts(parts) ==
  IF Len(parts) # 3 THEN None
  ELSE DecodeBytes(UrlsafeB64decode(PadPayloadPart(parts[2])))

\* decode_jwt_payload(token): the payload, None on any failure.  Every
\* exception of the body is caught by its except clause.
decode_jwt_payload(token) == DecodeParts(Split(token, 46))

(***************************************************************************)
(* get_user_info_from_token                                                *)
(***************************************************************************)
\* A dict the code reads by literal keys: fields |-> value, Absent if missing.
PyRecord(fields) == <<"record", fields>>

\* d.get(k) on such a dict.
RecGet(d, k) == IF d[2][k] = Absent THEN None ELSE d[2][k]

\* d.get(k, default)
RecGetOr(d, k, default) == IF d[2][k] = Absent THEN default ELSE d[2][k]

\* The pair (None, []) the extractors return for "no identity".
NoIdentity == [user_info |-> None, groups |-> <<>>]

COGNITO_HEADER == Str(<<"x", "-", "c", "o", "g", "n", "i", "t", "o", "-", "i", "d", "-", "t", "o", "k", "e", "n">>)

\* Mutant: the header name compared without lower().
TokenLocator_CaseSensitive(headers) ==
  LET hits == {i \in 1..Len(headers[2]) : headers[2][i][1] = COGNITO_HEADER}
  IN IF hits = {} THEN None
     ELSE headers[2][CHOOSE i \in hits : \A j \in hits : i <= j][2]

\* Lines 44-48: the value of the first header, in iteration order, whose
\* lower-cased name is x-cognito-id-token; None when there is none.
TokenLocator(headers) ==
  LET hits == {i \in 1..Len(headers[2]) : Lower(headers[2][i][1]) = COGNITO_HEADER}
  IN IF hits = {} THEN None
     ELSE headers[2][CHOOSE i \in hits : \A j \in hits : i <= j][2]

\* Lines 74-80.
possible_group_claims ==
  << Str(<<"c", "o", "g", "n", "i", "t", "o", ":", "g", "r", "o", "u", "p", "s">>),
     Str(<<"g", "r", "o", "u", "p", "s">>),
     Str(<<"c", "u", "s", "t", "o", "m", ":", "g", "r", "o", "u", "p", "s">>),
     Str(<<"m", "e", "m", "b", "e", "r", "O", "f">>),
     Str(<<"r", "o", "l", "e", "s">>) >>

\* Mutant: the pieces of a comma-separated string not stripped.
GroupsOfClaim_NoStrip(claim_value) ==
  IF claim_value[1] = "list" THEN claim_value[2]
  ELSE IF claim_value[1] = "str" THEN
    LET pieces == Split(claim_value[2], 44)
    IN [i \in 1..Len(pieces) |-> PyStr(pieces[i])]
  ELSE <<>>

\* Lines 85-89: what one claim value adds to groups.
GroupsOfClaim(claim_value) ==
  IF claim_value[1] = "list" THEN claim_value[2]
  ELSE IF claim_value[1] = "str" THEN
    LET pieces == Split(claim_value[2], 44)
    IN [i \in 1..Len(pieces) |-> PyStr(Strip(pieces[i]))]
  ELSE <<>>

\* Mutant: the loop breaks only after a claim whose value is a list or a str.
ExtractGroups_FirstUsable(token_payload) ==
  LET usable == {i \in 1..Len(possible_group_claims) :
                   /\ HasKey(token_payload, possible_group_claims[i])
                   /\ Lookup(token_payload, possible_group_claims[i])[1] \in {"list", "str"}}
  IN IF usable = {} THEN <<>>
     ELSE GroupsOfClaim(Lookup(token_payload, possible_group_claims[Min(usable)]))

\* Mutant: the loop runs over the payload's keys, so the payload's first
\* group claim wins.
ExtractGroups_PayloadOrder(token_payload) ==
  LET names == {possible_group_claims[i] : i \in 1..Len(possible_group_claims)}
      present == {i \in 1..Len(token_payload[2]) : token_payload[2][i][1] \in names}
  IN IF present = {} THEN <<>>
     ELSE GroupsOfClaim(token_payload[2][Min(present)][2])

\* Lines 73-90: the groups of the first claim name, in the order of
\* possible_group_claims, that is a key of the payload.
ExtractGroups(token_payload) ==
  LET present == {i \in 1..Len(possible_group_claims) :
                    HasKey(token_payload, possible_group_claims[i])}
  IN IF present = {} THEN <<>>
     ELSE LET first == CHOOSE i \in present : \A j \in present : i <= j
          IN GroupsOfClaim(Lookup(token_payload, possible_group_claims[first]))

\* Lines 62-70.
TokenUserInfo(token_payload) ==
  PyRecord([username |-> DictGet(token_payload, Str(<<"c", "o", "g", "n", "i", "t", "o", ":", "u", "s", "e", "r", "n", "a", "m", "e">>)),
            email |-> DictGet(token_payload, Str(<<"e", "m", "a", "i", "l">>)),
            email_verified |-> DictGet(token_payload, Str(<<"e", "m", "a", "i", "l", "_", "v", "e", "r", "i", "f", "i", "e", "d">>)),
            sub |-> DictGet(token_payload, Str(<<"s", "u", "b">>)),
            aud |-> DictGet(token_payload, Str(<<"a", "u", "d">>)),
            iss |-> DictGet(token_payload, Str(<<"i", "s", "s">>)),
            token_use |-> DictGet(token_payload, Str(<<"t", "o", "k", "e", "n", "_", "u", "s", "e">>))])

\* Line 56: the falsy payloads are taken for a failed decode.
PayloadRejected(token_payload) == ~Truthy(token_payload)

\* Lines 56-95, from the decoded payload.  The .get of a payload that is no
\* dict raises AttributeError, caught by the except clause.
IdentityFromPayload(token_payload) ==
  IF PayloadRejected(token_payload) THEN NoIdentity
  ELSE IF token_payload[1] # "dict" THEN NoIdentity
  ELSE [user_info |-> TokenUserInfo(token_payload),
        groups |-> ExtractGroups(token_payload)]

\* Lines 50-95, from the located token.  The split of a token that is no str
\* raises inside decode_jwt_payload, which returns None.
IdentityFromToken(id_token) ==
  IF ~Truthy(id_token) THEN NoIdentity
  ELSE IdentityFromPayload(
         IF id_token[1] = "str" THEN decode_jwt_payload(id_token[2]) ELSE None)

\* Lines 44-95, from the headers.  The .items of headers that are no dict
\* raises AttributeError, caught by the except clause.
IdentityFromHeaders(headers) ==
  IF headers[1] # "dict" THEN NoIdentity ELSE IdentityFromToken(TokenLocator(headers))

\* get_user_info_from_token(event): [user_info, groups].
get_user_info_from_token(event) ==
  IdentityFromHeaders(IF event.headers = Absent THEN PyDict(<<>>) ELSE event.headers)

(***************************************************************************)
(* get_user_from_cognito_context                                           *)
(***************************************************************************)
\* The {} default of event.get("requestContext", {}).
EmptyRequestContext ==
  PyRecord([identity |-> Absent, apiId |-> Absent, stage |-> Absent,
            requestId |-> Absent, httpMethod |-> Absent, resourcePath |-> Absent])

\* The {} default of request_context.get("identity", {}).
EmptyIdentity ==
  PyRecord([cognitoIdentityId |-> Absent, cognitoAuthenticationProvider |-> Absent,
            sourceIp |-> Absent, userAgent |-> Absent])

\* Lines 109-114.
ContextUserInfo(identity) ==
  PyRecord([cognito_identity_id |-> RecGet(identity, "cognitoIdentityId"),
            cognito_auth_provider |-> RecGet(identity, "cognitoAuthenticationProvider"),
            source_ip |-> RecGet(identity, "sourceIp"),
            user_agent |-> RecGet(identity, "userAgent")])

\* event.get("requestContext", {})
RequestContextOf(event) ==
  IF event.requestContext = Absent THEN EmptyRequestContext ELSE event.requestContext

\* Lines 106-117, from the identity block.
ContextIdentity(identity) ==
  IF identity[1] # "record" THEN NoIdentity
  ELSE [user_info |-> ContextUserInfo(identity), groups |-> <<>>]

\* get_user_from_cognito_context(event): [user_info, groups].  The .get of a
\* requestContext or identity that is no dict raises AttributeError, caught
\* by the except clause, which returns (None, []).
get_user_from_cognito_context(event) ==
  IF RequestContextOf(event)[1] # "record" THEN NoIdentity
  ELSE ContextIdentity(RecGetOr(RequestContextOf(event), "identity", EmptyIdentity))

(***************************************************************************)
(* handler                                                                 *)
(***************************************************************************)
ADMIN == PyStr(Str(<<"A", "d", "m", "i", "n">>))
VIEWER == PyStr(Str(<<"V", "i", "e", "w", "e", "r">>))

\* Mutant: the group names compared stripped and without case.
RoleFlags_IgnoreCase(user_groups) ==
  LET Has(name) == \E i \in 1..Len(user_groups) :
                     /\ user_groups[i][1] = "str"
                     /\ Lower(Strip(user_groups[i][2])) = Lower(name[2])
  IN [is_admin |-> Has(ADMIN), is_viewer |-> Has(VIEWER)]

\* Lines 136-137: "Admin" in user_groups, "Viewer" in user_groups.
RoleFlags(user_groups) ==
  [is_admin |-> In(ADMIN, user_groups), is_viewer |-> In(VIEWER, user_groups)]

\* Lines 141-147.
ApiInfo(request_context) ==
  PyRecord([api_id |-> RecGet(request_context, "apiId"),
            stage |-> RecGet(request_context, "stage"),
            request_id |-> RecGet(request_context, "requestId"),
            http_method |-> RecGet(request_context, "httpMethod"),
            resource_path |-> RecGet(request_context, "resourcePath")])

\* What the handler did not return: it raised.
Raised == [raised |-> TRUE, statusCode |-> 0, body |-> None]

\* Lines 154-163: the object handed to json.dumps.
ResponseBody(user, flags, request_context, aws_request_id) ==
  PyRecord(
    [message |-> PyStr(Str(<<"H", "e", "l", "l", "o", " ", "f", "r", "o", "m", " ", "L", "a", "m", "b", "d", "a", "!">>)),
     user_info |-> user.user_info,
     user_groups |-> PyList(user.groups),
     is_admin |-> PyBool(flags.is_admin),
     is_viewer |-> PyBool(flags.is_viewer),
     api_info |-> ApiInfo(request_context),
     timestamp |-> aws_request_id])

\* Lines 136-166, from the identity in use.  Line 140 is outside any try: a
\* requestContext that is no dict raises.  The body is kept as the object
\* handed to json.dumps.
Response(user, request_context, aws_request_id) ==
  IF request_context[1] # "record" THEN Raised
  ELSE [raised |-> FALSE,
        statusCode |-> 200,
        body |-> ResponseBody(user, RoleFlags(user.groups), request_context, aws_request_id)]

\* Lines 132-166, from what line 129 returned.
AfterToken(event, aws_request_id, token_identity, no_user_info) ==
  [from_token |-> token_identity,
   fallback |-> no_user_info,
   response |->
     Response(IF no_user_info THEN get_user_from_cognito_context(event) ELSE token_identity,
              RequestContextOf(event), aws_request_id)]

\* Line 132: if not user_info.
FallbackTaken(token_identity) == ~Truthy(token_identity.user_info)

\* handler(event, context): the locals the claims read and the return value.
handler(event, aws_request_id) ==
  AfterToken(event, aws_request_id, get_user_info_from_token(event),
             FallbackTaken(get_user_info_from_token(event)))

(***************************************************************************)
(* Building tokens: json.dumps, base64.urlsafe_b64encode, rstrip("=")      *)
(***************************************************************************)
RECURSIVE IntDigits(_)
\* str(n) for n >= 0.
IntDigits(n) == IF n < 10 THEN <<48 + n>> ELSE Append(IntDigits(n \div 10), 48 + (n % 10))

RECURSIVE JsonDumps(_)
RECURSIVE DumpJoin(_, _)
\* ", ".join of the dumped elements (a list) or "key": value items (a dict).
DumpJoin(xs, isDict) ==
  IF xs = <<>> THEN <<>>
  ELSE LET x == Head(xs)
           one == IF isDict THEN <<34>> \o x[1] \o <<34, 58, 32>> \o JsonDumps(x[2])
                  ELSE JsonDumps(x)
       IN IF Len(xs) = 1 THEN one ELSE one \o <<44, 32>> \o DumpJoin(Tail(xs), isDict)

\* json.dumps(x), for strings that need no escape.
JsonDumps(x) ==
  CASE x[1] = "none" -> Str(<<"n", "u", "l", "l">>)
    [] x[1] = "bool" -> IF x[2] THEN Str(<<"t", "r", "u", "e">>) ELSE Str(<<"f", "a", "l", "s", "e">>)
    [] x[1] = "int" -> IF x[2] < 0 THEN <<45>> \o IntDigits(0 - x[2]) ELSE IntDigits(x[2])
    [] x[1] = "str" -> <<34>> \o x[2] \o <<34>>
    [] x[1] = "list" -> <<91>> \o DumpJoin(x[2], FALSE) \o <<93>>
    [] x[1] = "dict" -> <<123>> \o DumpJoin(x[2], TRUE) \o <<125>>

\* The urlsafe character of a 6-bit value.
B64Char(n) ==
  IF n < 26 THEN 65 + n
  ELSE IF n < 52 THEN 71 + n
  ELSE IF n < 62 THEN n - 4
  ELSE IF n = 62 THEN 45
  ELSE 95

\* base64.urlsafe_b64encode(b): 4 characters for every 3 bytes, the last
\* group padded with '='.
B64Encode(b) ==
  LET n == Len(b)
      at(i) == IF i <= n THEN b[i] ELSE 0
  IN [k \in 1..(4 * ((n + 2) \div 3)) |->
        LET g == 3 * ((k - 1) \div 4)
            r == (k - 1) % 4
        IN IF r = 0 THEN B64Char(at(g + 1) \div 4)
           ELSE IF r = 1 THEN B64Char((at(g + 1) % 4) * 16 + at(g + 2) \div 16)
           ELSE IF r = 2 THEN
             IF g + 2 > n THEN 61 ELSE B64Char((at(g + 2) % 16) * 4 + at(g + 3) \div 64)
           ELSE IF g + 3 > n THEN 61 ELSE B64Char(at(g + 3) % 64)]

RECURSIVE RStripPad(_)
\* s.rstrip("=")
RStripPad(s) ==
  IF s # <<>> /\ s[Len(s)] = 61 THEN RStripPad(SubSeq(s, 1, Len(s) - 1)) ELSE s

\* The middle segment that carries an ASCII text: base64url, padding stripped.
Segment(text) == RStripPad(B64Encode(text))

\* header.payload.signature around a middle segment.
TokenOf(segment) == Str(<<"h", "d", "r">>) \o <<46>> \o segment \o <<46>> \o Str(<<"s", "i", "g">>)

\* The synthetic three-segment token that carries a JSON value.
SyntheticToken(x) == TokenOf(Segment(JsonDumps(x)))

(***************************************************************************)
(* Bounds                                                                  *)
(***************************************************************************)
\* Claims in a generated token payload.
MaxClaims == 2
\* Headers in a generated request.
MaxHeaders == 2
\* '.' delimiters in a generated token.
MaxDots == 3
\* Characters cut from the end of a generated payload segment.
MaxCut == 3
\* Characters outside the base64 alphabet added to a generated segment.
MaxJunk == 4
\* '=' characters the sender left on (or added to) a generated segment.
MaxPad == 2

(***************************************************************************)
(* Inputs                                                                  *)
(***************************************************************************)
\* Values a group claim may carry: lists, comma-separated strings, others.
GroupValues ==
  { PyList(<<ADMIN, PyStr(Str(<<"X">>))>>),
    PyList(<<PyStr(Str(<<" ", "A", "d", "m", "i", "n">>)), PyStr(Str(<<"a", "d", "m", "i", "n">>)), PyStr(Str(<<"A", "d", "m", "i", "n", "s">>)), VIEWER>>),
    PyStr(Str(<<"A", "d", "m", "i", "n", ",", " ", "V", "i", "e", "w", "e", "r">>)),
    PyStr(Str(<<" ", "V", "i", "e", "w", "e", "r", " ", ",", ",", " ", "a", " ", "b">>)),
    PyInt(5) }

PayloadItems ==
  {<<possible_group_claims[i], x>> : i \in 1..Len(possible_group_claims), x \in GroupValues}
    \cup {<<Str(<<"s", "u", "b">>), PyStr(Str(<<"u", "1">>))>>}

RECURSIVE ItemSeqs(_)
\* The item sequences of at most n claims, keys distinct.
ItemSeqs(n) ==
  IF n = 0 THEN {<<>>}
  ELSE LET prev == ItemSeqs(n - 1)
       IN prev \cup
          {Append(p, it) : p \in {q \in prev : Len(q) = n - 1},
                           it \in PayloadItems}

DistinctKeys(items) ==
  \A i, j \in 1..Len(items) : i # j => items[i][1] # items[j][1]

\* The JSON objects a token payload is drawn from.
JsonObjects == {PyDict(p) : p \in {q \in ItemSeqs(MaxClaims) : DistinctKeys(q)}}

\* Group claim values that are neither a list nor a string: a number, a
\* boolean, an object, null.
UnusableValues ==
  { PyInt(5), PyBool(TRUE), PyDict(<<<<Str(<<"a">>), PyInt(1)>>>>), None }

\* Payloads of two group claims, the one of higher priority with an unusable
\* value, the other with a usable one, in either key order.
ShadowedGroupObjects ==
  LET pairs == {<<1, 2>>, <<2, 5>>, <<3, 4>>}
      usable == {PyList(<<ADMIN, VIEWER>>), PyStr(Str(<<"A", "d", "m", "i", "n", ",", " ", "V", "i", "e", "w", "e", "r">>))}
  IN UNION {{ PyDict(<< <<possible_group_claims[q[1]], u>>, <<possible_group_claims[q[2]], v>> >>),
              PyDict(<< <<possible_group_claims[q[2]], v>>, <<possible_group_claims[q[1]], u>> >>) } :
            q \in pairs, u \in UnusableValues, v \in usable}

\* JSON values that are no object.
NonObjects ==
  { PyList(<<PyInt(1)>>), PyList(<<>>), PyStr(Str(<<"a">>)), PyStr(<<>>),
    PyInt(7), PyInt(0), PyBool(TRUE), PyBool(FALSE), None }

\* Texts that are not JSON.
BadJsonTexts ==
  { Str(<<"{">>), Str(<<"{", "\"", "s", "u", "b", "\"", ":", " ", "\"", "u", "1", "\"", ",", "}">>), Str(<<"{", "s", "u", "b", ":", " ", "1", "}">>), Str(<<"n", "u", "l">>), Str(<<"{", "\"", "s", "u", "b", "\"", ":", " ", "\"", "u", "1", "\"", "}", " ", "x">>), Str(<<"[", "\"", "A", "d", "m", "i", "n", "\"">>), <<>> }

\* Texts that are JSON.
GoodJsonTexts ==
  { JsonDumps(PyDict(<<>>)), JsonDumps(PyDict(<<<<Str(<<"s", "u", "b">>), PyStr(Str(<<"u", "1">>))>>>>)),
    JsonDumps(PyDict(<<<<Str(<<"g", "r", "o", "u", "p", "s">>), PyStr(Str(<<"A", "d", "m", "i", "n">>))>>>>)), Str(<<" ", "[", "1", "]">>) }

\* A segment with cut characters removed from its end, junk '$' characters
\* put at either end and pad '=' characters left on it.
Mangle(segment, cut, junk, before, pad) ==
  LET kept == SubSeq(segment, 1, Len(segment) - cut)
  IN (IF before THEN Repeat(36, junk) \o kept ELSE kept \o Repeat(36, junk))
       \o Repeat(61, pad)

\* Middle segments: well-formed ones and their mangled variants.
MangledSegments ==
  {Mangle(Segment(text), cut, junk, before, pad) :
     text \in GoodJsonTexts \cup BadJsonTexts, cut \in 0..MaxCut, junk \in 0..MaxJunk,
     before \in BOOLEAN, pad \in 0..MaxPad}

RECURSIVE Dotted(_, _)
\* A token of n '.' delimiters whose segments are all the given one.
Dotted(segment, n) == IF n = 0 THEN segment ELSE segment \o <<46>> \o Dotted(segment, n - 1)

\* Tokens with every number of delimiters up to MaxDots.
DottedTokens ==
  {Dotted(Segment(JsonDumps(PyDict(<<<<Str(<<"s", "u", "b">>), PyStr(Str(<<"u", "1">>))>>>>))), n) : n \in 0..MaxDots}
    \cup {Dotted(<<>>, n) : n \in 0..MaxDots}

\* Segments whose bytes are not UTF-8: 0xFF, and 0xC3 0x28.
BadUtf8Segments == { Str(<<"_", "w">>), Str(<<"w", "y", "g">>) }

\* The token strings handed to decode_jwt_payload directly.
RawTokens ==
  DottedTokens \cup {TokenOf(g) : g \in MangledSegments \cup BadUtf8Segments}

\* The token of an administrator and the token of a viewer.
AdminToken ==
  PyStr(SyntheticToken(PyDict(<<<<Str(<<"s", "u", "b">>), PyStr(Str(<<"u", "1">>))>>,
                                <<Str(<<"c", "o", "g", "n", "i", "t", "o", ":", "g", "r", "o", "u", "p", "s">>), PyList(<<ADMIN>>)>>>>)))
ViewerToken ==
  PyStr(SyntheticToken(PyDict(<<<<Str(<<"g", "r", "o", "u", "p", "s">>), PyStr(Str(<<"V", "i", "e", "w", "e", "r">>))>>>>)))

\* The token whose payload is the empty object: hdr.e30.sig
EmptyObjectToken == PyStr(SyntheticToken(PyDict(<<>>)))

\* Malformed tokens: wrong segment count, bad base64, bad UTF-8, invalid JSON.
MalformedTokens ==
  { PyStr(Str(<<"a", "b", "c">>)), PyStr(Str(<<"h", "d", "r", ".", "e", "3", "0">>)), PyStr(Str(<<"h", "d", "r", ".", "e", "3", "0", ".", "s", "i", "g", ".", "x">>)),
    PyStr(TokenOf(Str(<<"e">>))), PyStr(TokenOf(Str(<<"e", "3", "0", "$">>))), PyStr(TokenOf(Str(<<"_", "w">>))),
    PyStr(TokenOf(Segment(Str(<<"{">>)))), PyStr(TokenOf(Segment(Str(<<"{", "\"", "s", "u", "b", "\"", ":", " ", "\"", "u", "1", "\"", ",", "}">>)))) }

\* Header names: three casings of the Cognito header and another header.
HeaderNames ==
  { COGNITO_HEADER, Str(<<"X", "-", "C", "O", "G", "N", "I", "T", "O", "-", "I", "D", "-", "T", "O", "K", "E", "N">>), Str(<<"X", "-", "C", "o", "g", "n", "i", "t", "o", "-", "I", "d", "-", "T", "o", "k", "e", "n">>), Str(<<"H", "o", "s", "t">>) }

HeaderValues == {AdminToken, ViewerToken, PyStr(<<>>), PyStr(Str(<<"a", "b", "c">>))}

RECURSIVE HeaderSeqs(_)
\* The header item sequences of at most n headers.
HeaderSeqs(n) ==
  IF n = 0 THEN {<<>>}
  ELSE LET prev == HeaderSeqs(n - 1)
       IN prev \cup
          {Append(p, <<name, value>>) : p \in {q \in prev : Len(q) = n - 1},
                                        name \in HeaderNames, value \in HeaderValues}

\* The headers of a request: a dict of distinct names, null, or no such key.
HeaderDicts ==
  {PyDict(h) : h \in {q \in HeaderSeqs(MaxHeaders) : DistinctKeys(q)}}

OneHeader(name, value) == PyDict(<<<<name, value>>>>)

FullIdentity ==
  PyRecord([cognitoIdentityId |-> PyStr(Str(<<"e", "u", "-", "w", "e", "s", "t", "-", "1", ":", "i", "d">>)),
            cognitoAuthenticationProvider |-> PyStr(Str(<<"c", "o", "g", "n", "i", "t", "o", "-", "i", "d", "p">>)),
            sourceIp |-> PyStr(Str(<<"1", "0", ".", "0", ".", "0", ".", "1">>)),
            userAgent |-> PyStr(Str(<<"c", "u", "r", "l">>))])

PartialIdentity ==
  PyRecord([cognitoIdentityId |-> None,
            cognitoAuthenticationProvider |-> Absent,
            sourceIp |-> PyStr(Str(<<"1", "0", ".", "0", ".", "0", ".", "1">>)),
            userAgent |-> Absent])

\* requestContext.identity: missing, null, not a dict, or a dict.
Identities == {Absent, None, PyStr(Str(<<"i", "d">>)), EmptyIdentity, PartialIdentity, FullIdentity}

ContextWith(identity) ==
  PyRecord([identity |-> identity, apiId |-> PyStr(Str(<<"a", "p", "i", "1">>)), stage |-> PyStr(Str(<<"d", "e", "v">>)),
            requestId |-> Absent, httpMethod |-> PyStr(Str(<<"G", "E", "T">>)), resourcePath |-> None])

FullContext == ContextWith(FullIdentity)

\* requestContext: missing, null, not a dict, or a dict.
RequestContexts ==
  {Absent, None, PyStr(Str(<<"c", "t", "x">>))} \cup {ContextWith(i) : i \in Identities}

\* The event: a dict of which the code reads headers and requestContext.
Event(headers, request_context) ==
  [headers |-> headers, requestContext |-> request_context]

\* The request whose token carries the JSON value x.
PayloadEvent(x) == Event(OneHeader(COGNITO_HEADER, PyStr(SyntheticToken(x))), FullContext)

\* Requests with each generated header dict.
HeaderEvents == {Event(h, FullContext) : h \in HeaderDicts \cup {Absent, None}}

\* Requests with each request context, without a token, with a malformed
\* token and with a well-formed one.
ContextEvents ==
  {Event(h, rc) :
     h \in {PyDict(<<>>), PyDict(<<<<Str(<<"H", "o", "s", "t">>), PyStr(Str(<<"e", "x", "a", "m", "p", "l", "e", ".", "o", "r", "g">>))>>>>)}
             \cup {OneHeader(Str(<<"X", "-", "C", "o", "g", "n", "i", "t", "o", "-", "I", "d", "-", "T", "o", "k", "e", "n">>), tk) :
                     tk \in MalformedTokens \cup {AdminToken, EmptyObjectToken}}
             \cup {PyDict(<<<<Str(<<"H", "o", "s", "t">>), PyStr(Str(<<"e", "x", "a", "m", "p", "l", "e", ".", "o", "r", "g">>))>>,
                            <<COGNITO_HEADER, tk>>>>) : tk \in MalformedTokens},
     rc \in RequestContexts}


\* context.aws_request_id
AwsRequestId == PyStr(Str(<<"r", "e", "q", "-", "1">>))

(***************************************************************************)
(* test_auth.py: the step functions of the flow exerciser                  *)
(***************************************************************************)
\* A requests.Response with its status_code; it is truthy when its status is
\* below 400.
HttpResponse(status_code) == <<"response", status_code>>

\* The status codes the API answers with.
Statuses == {200, 403}

\* What a step function that issues its calls in one try block returns: None
\* when a call raised, else the response.
StepResults == {None} \cup {HttpResponse(c) : c \in Statuses}

\* An entry of the log of a Cognito flow: the function ("password" for
\* test_cognito_auth_endpoint, "srp" for test_cognito_srp_auth), what
\* happened and two details: the username and password of an invocation or
\* an authentication, the value of a return, None where there is none.
Call(flow, op, a, b) == <<flow, op, a, b>>

\* The calls of a flow, in order, up to the one that raises, which is followed
\* by a "raised" entry (all of them when none raises).
Issued(ops, raises) ==
  LET at == {i \in 1..Len(ops) : ops[i][2] = raises}
  IN IF at = {} THEN ops
     ELSE SubSeq(ops, 1, Min(at)) \o <<Call(ops[1][1], "raised", None, None)>>

\* The return value of a flow: None when one of its calls raised.
FlowResult(ops, raises, status_code) ==
  IF \E i \in 1..Len(ops) : ops[i][2] = raises THEN None ELSE HttpResponse(status_code)

\* Line 135 and lines 149-217: the calls of the password flow.
PasswordOps(username, password) ==
  << Call("password", "Session", None, None),
     Call("password", "initiate_auth", username, password),
     Call("password", "get_id", None, None),
     Call("password", "get_credentials_for_identity", None, None),
     Call("password", "requests.get", None, None) >>

\* Lines 138-147 (and 236-245): the argument, or what the user types when it
\* is not given.
Prompted(argument, typed) == IF Truthy(argument) THEN argument ELSE PyStr(typed)

\* Lines 135-221 with the username and password in use: the session, then
\* None at an empty username or password, else the calls.
PasswordFlow(username, password, env) ==
  IF env.raises # "Session" /\ (~Truthy(username) \/ ~Truthy(password))
    THEN [result |-> None, calls |-> <<Call("password", "Session", None, None)>>]
    ELSE [result |-> FlowResult(PasswordOps(username, password), env.raises, env.status_code),
          calls |-> Issued(PasswordOps(username, password), env.raises)]

\* A run with an entry put before its log.
Logged(entry, run) == [run EXCEPT !.calls = <<entry>> \o @]

\* A run of a function: the entry of its invocation, the log of its body and
\* the entry of its return.
Invoked(flow, username, password, run) ==
  [run EXCEPT !.calls = <<Call(flow, "invoked", username, password)>> \o @
                          \o <<Call(flow, "returned", run.result, None)>>]

\* test_cognito_auth_endpoint(config, username, password): [result, calls].
\* env is what the world does: what the user types, the call that raises
\* ("none" for none) and the status the API answers.
test_cognito_auth_endpoint(username, password, env) ==
  Invoked("password", username, password,
    PasswordFlow(Prompted(username, Strip(env.typed_username)),
                 Prompted(password, env.typed_password), env))

\* Lines 270-324: the calls of the SRP flow after its authentication.
SrpOps ==
  << Call("srp", "Session", None, None),
     Call("srp", "get_id", None, None),
     Call("srp", "get_credentials_for_identity", None, None),
     Call("srp", "requests.get", None, None) >>

\* Mutant: an SRP authentication that raises ends the function: no password
\* flow.
SrpFlow_NoFallback(username, password, env) ==
  IF ~Truthy(username) \/ ~Truthy(password) THEN [result |-> None, calls |-> <<>>]
  ELSE IF env.srp_raises THEN
    [result |-> None,
     calls |-> <<Call("srp", "authenticate", username, password),
                 Call("srp", "raised", None, None)>>]
  ELSE Logged(Call("srp", "authenticate", username, password),
              [result |-> FlowResult(SrpOps, env.raises, env.status_code),
               calls |-> Issued(SrpOps, env.raises)])

\* Lines 236-328, with the username and password in use: None at an empty
\* one, else SRP authentication, then either the password flow (lines
\* 259-267) or the flow's own calls.
SrpFlow(username, password, env) ==
  IF ~Truthy(username) \/ ~Truthy(password) THEN [result |-> None, calls |-> <<>>]
  ELSE IF env.srp_raises THEN
    Logged(Call("srp", "authenticate", username, password),
           Logged(Call("srp", "raised", None, None),
                  test_cognito_auth_endpoint(username, password, env.fallback)))
  ELSE Logged(Call("srp", "authenticate", username, password),
              [result |-> FlowResult(SrpOps, env.raises, env.status_code),
               calls |-> Issued(SrpOps, env.raises)])

\* test_cognito_srp_auth(config, username, password): [result, calls], with
\* PYCOGNITO_AVAILABLE as pycognito_available.
test_cognito_srp_auth(pycognito_available, username, password, env) ==
  Invoked("srp", username, password,
    IF ~pycognito_available
      THEN test_cognito_auth_endpoint(username, password, env.fallback)
      ELSE SrpFlow(Prompted(username, Strip(env.typed_username)),
                   Prompted(password, env.typed_password), env))

\* What the user may type at a prompt for a username or a password.
TypedNames == {<<>>, Str(<<" ", "a", "l", "i", "c", "e", " ">>)}
TypedPasswords == {<<>>, Str(<<"p", "w">>)}

\* The worlds of the password flow.
PasswordEnvs ==
  [typed_username : TypedNames, typed_password : TypedPasswords,
   raises : {"none", "Session", "initiate_auth", "get_id",
             "get_credentials_for_identity", "requests.get"},
   status_code : Statuses]

\* The worlds of the SRP flow; the user types the same at either prompt.
SrpEnvs ==
  {[typed_username |-> f.typed_username, typed_password |-> f.typed_password,
    srp_raises |-> b, raises |-> r, status_code |-> c, fallback |-> f] :
     f \in PasswordEnvs, b \in BOOLEAN,
     r \in {"none", "Session", "get_id", "get_credentials_for_identity", "requests.get"},
     c \in Statuses}

\* Line 523 (526, 529): response and response.status_code == 200.
Succeeded(response) == Truthy(response) /\ response[2] = 200

\* Line 532: response is not None and response.status_code == 403.
Denied(response) == response # None /\ response[2] = 403

\* A line of the summary.
SummaryLine(label, success) == <<label, IF success THEN "SUCCESS" ELSE "FAILED">>

\* Lines 534-538: the line of the Cognito step, printed when it returned a
\* response.
CognitoLines(cognito_response, choice) ==
  IF cognito_response # None
    THEN <<SummaryLine(IF choice \in {Str(<<"2">>), Str(<<"4">>)} THEN "Authenticated Cognito SRP"
                       ELSE "Authenticated Cognito Password",
                       cognito_response[2] = 200)>>
    ELSE <<>>

\* Lines 521-538: the printed summary.
Summary(r, choice) ==
  << SummaryLine("Plain endpoint (no auth)", Succeeded(r.plain)),
     SummaryLine("IAM auth endpoint", Succeeded(r.iam_auth)),
     SummaryLine("Unauthenticated /test/public", Succeeded(r.unauthenticated_public)),
     SummaryLine("Unauthenticated /test/auth (expect 403)", Denied(r.unauthenticated_auth)) >>
    \o CognitoLines(r.cognito, choice)

\* Lines 508-518: the step the match statement runs for a choice.
ChosenStep(choice, pycognito_available) ==
  IF choice = Str(<<"1">>) THEN "test_cognito_auth_endpoint"
  ELSE IF choice = Str(<<"2">>) /\ pycognito_available THEN "test_cognito_srp_auth"
  ELSE "skip"

\* What the user may type at line 504.
TypedChoices == {Str(<<"1">>), Str(<<"2">>), Str(<<" ", "2", " ">>), Str(<<"3">>), Str(<<"x">>), <<>>}

\* The arguments of a direct call of test_cognito_srp_auth.
Usernames == {None, PyStr(Str(<<"b", "o", "b">>))}
Passwords == {None, PyStr(Str(<<"s", "e", "c", "r", "e", "t">>))}

\* The responses of main before any test has run.
NoResults ==
  [plain |-> Absent, iam_auth |-> Absent, unauthenticated_public |-> Absent,
   unauthenticated_auth |-> Absent, cognito |-> Absent]

(***************************************************************************)
(* State                                                                   *)
(***************************************************************************)
VARIABLES
  pc,            \* "request", "responded", "raised": an invocation of handler;
                 \* "token", "decoded": a call of decode_jwt_payload;
                 \* "main" ... "done", "exit": a run of test_auth.py's main;
                 \* "srp", "returned": a call of test_cognito_srp_auth
  PYCOGNITO_AVAILABLE,  \* test_auth.py: whether pycognito was imported
  choice,        \* main: the choice read at line 504
  username,      \* test_cognito_srp_auth: its username argument
  password,      \* test_cognito_srp_auth: its password argument
  results,       \* main: the response variables, Absent before assignment
  steps,         \* main: the step functions called so far, in order
  calls,         \* the log of the Cognito flow that ran
  summary,       \* main: the lines printed after "SUMMARY:"
  event,         \* handler's event
  token,         \* decode_jwt_payload's token
  original,      \* the JSON value the synthetic token (of the call, or of the
                 \* request's header) was made from, Absent if there is none
  payload_part,  \* decode_jwt_payload: the padded payload segment (line 24)
  payload,       \* decode_jwt_payload: its return value
  from_token,    \* handler: what get_user_info_from_token returned (line 129)
  fallback,      \* handler: whether line 133 ran
  response       \* handler: its return value

extractor_vars == <<event, token, original, payload_part, payload, from_token, fallback, response>>

exerciser_vars == <<PYCOGNITO_AVAILABLE, choice, username, password, results, steps, calls, summary>>

vars == <<pc, extractor_vars, exerciser_vars>>

NoResponse == [raised |-> FALSE, statusCode |-> 0, body |-> None]

Init ==
  /\ \/ /\ pc = "request"
        /\ token = <<>>
        /\ \/ event \in HeaderEvents \cup ContextEvents /\ original = Absent
           \/ \E x \in JsonObjects \cup NonObjects \cup ShadowedGroupObjects :
                original = x /\ event = PayloadEvent(x)
        /\ PYCOGNITO_AVAILABLE = FALSE /\ username = None /\ password = None
     \/ /\ pc = "token"
        /\ event = Event(Absent, Absent)
        /\ \/ token \in RawTokens /\ original = Absent
           \/ \E x \in JsonObjects : original = x /\ token = SyntheticToken(x)
        /\ PYCOGNITO_AVAILABLE = FALSE /\ username = None /\ password = None
     \/ /\ pc = "main"
        /\ token = <<>> /\ event = Event(Absent, Absent) /\ original = Absent
        /\ PYCOGNITO_AVAILABLE \in BOOLEAN /\ username = None /\ password = None
     \/ /\ pc = "srp"
        /\ token = <<>> /\ event = Event(Absent, Absent) /\ original = Absent
        /\ PYCOGNITO_AVAILABLE \in BOOLEAN
        /\ username \in Usernames /\ password \in Passwords
  /\ choice = <<>>
  /\ results = NoResults
  /\ steps = <<>>
  /\ calls = <<>>
  /\ summary = <<>>
  /\ payload_part = <<>>
  /\ payload = Absent
  /\ from_token = NoIdentity
  /\ fallback = FALSE
  /\ response = NoResponse

\* One invocation of handler, lines 124-166.
Handler ==
  /\ pc = "request"
  /\ \E r \in {handler(event, AwsRequestId)} :
       /\ from_token' = r.from_token
       /\ fallback' = r.fallback
       /\ response' = r.response
       /\ pc' = IF r.response.raised THEN "raised" ELSE "responded"
  /\ UNCHANGED <<event, token, original, payload_part, payload>>
  /\ UNCHANGED exerciser_vars

\* One call of decode_jwt_payload, lines 9-34.
DecodeJwtPayload ==
  /\ pc = "token"
  /\ LET parts == Split(token, 46)
     IN payload_part' = IF Len(parts) = 3 THEN PadPayloadPart(parts[2]) ELSE <<>>
  /\ payload' = decode_jwt_payload(token)
  /\ pc' = "decoded"
  /\ UNCHANGED <<event, token, original, from_token, fallback, response>>
  /\ UNCHANGED exerciser_vars

\* main, lines 469-480: the configuration loads, or main returns.
LoadConfig ==
  /\ pc = "main"
  /\ \E loaded \in BOOLEAN : pc' = IF loaded THEN "test_plain_endpoint" ELSE "exit"
  /\ UNCHANGED <<extractor_vars, exerciser_vars>>

\* main, line 483: test_plain_endpoint, lines 84-97.
TestPlainEndpoint ==
  /\ pc = "test_plain_endpoint"
  /\ \E r \in StepResults : results' = [results EXCEPT !.plain = r]
  /\ steps' = Append(steps, "test_plain_endpoint")
  /\ pc' = "test_auth_endpoint"
  /\ UNCHANGED <<extractor_vars, PYCOGNITO_AVAILABLE, choice, username, password, calls, summary>>

\* Mutant: an exception of test_auth_endpoint is not caught and ends main.
TestAuthEndpoint_AbortsOnFailure ==
  /\ pc = "test_auth_endpoint"
  /\ \E r \in StepResults :
       /\ results' = [results EXCEPT !.iam_auth = r]
       /\ pc' = IF r = None THEN "exit" ELSE "test_unauthenticated_endpoint"
  /\ steps' = Append(steps, "test_auth_endpoint")
  /\ UNCHANGED <<extractor_vars, PYCOGNITO_AVAILABLE, choice, username, password, calls, summary>>

\* main, line 484: test_auth_endpoint, lines 100-127.
TestAuthEndpoint ==
  /\ pc = "test_auth_endpoint"
  /\ \E r \in StepResults : results' = [results EXCEPT !.iam_auth = r]
  /\ steps' = Append(steps, "test_auth_endpoint")
  /\ pc' = "test_unauthenticated_endpoint"
  /\ UNCHANGED <<extractor_vars, PYCOGNITO_AVAILABLE, choice, username, password, calls, summary>>

\* main, line 488: test_unauthenticated_endpoint, lines 331-389.
TestUnauthenticatedEndpoint ==
  /\ pc = "test_unauthenticated_endpoint"
  /\ \E r \in StepResults : results' = [results EXCEPT !.unauthenticated_public = r]
  /\ steps' = Append(steps, "test_unauthenticated_endpoint")
  /\ pc' = "test_unauthenticated_auth_endpoint"
  /\ UNCHANGED <<extractor_vars, PYCOGNITO_AVAILABLE, choice, username, password, calls, summary>>

\* main, line 489: test_unauthenticated_auth_endpoint, lines 392-464.
TestUnauthenticatedAuthEndpoint ==
  /\ pc = "test_unauthenticated_auth_endpoint"
  /\ \E r \in StepResults : results' = [results EXCEPT !.unauthenticated_auth = r]
  /\ steps' = Append(steps, "test_unauthenticated_auth_endpoint")
  /\ pc' = "choose"
  /\ UNCHANGED <<extractor_vars, PYCOGNITO_AVAILABLE, choice, username, password, calls, summary>>

\* main, lines 503-518: the choice is read, cognito_response is set to None
\* and the match statement picks the step.
Choose ==
  /\ pc = "choose"
  /\ \E typed \in TypedChoices :
       /\ choice' = Strip(Lower(typed))
       /\ pc' = IF ChosenStep(Strip(Lower(typed)), PYCOGNITO_AVAILABLE) = "skip"
                  THEN "summary"
                  ELSE ChosenStep(Strip(Lower(typed)), PYCOGNITO_AVAILABLE)
  /\ results' = [results EXCEPT !.cognito = None]
  /\ UNCHANGED <<extractor_vars, PYCOGNITO_AVAILABLE, username, password, steps, calls, summary>>

\* main, line 510: test_cognito_auth_endpoint(config), lines 130-221.
TestCognitoAuthEndpoint ==
  /\ pc = "test_cognito_auth_endpoint"
  /\ \E env \in PasswordEnvs :
       \E run \in {test_cognito_auth_endpoint(None, None, env)} :
         /\ results' = [results EXCEPT !.cognito = run.result]
         /\ calls' = run.calls
  /\ steps' = Append(steps, "test_cognito_auth_endpoint")
  /\ pc' = "summary"
  /\ UNCHANGED <<extractor_vars, PYCOGNITO_AVAILABLE, choice, username, password, summary>>

\* test_cognito_srp_auth, lines 224-328: called by main at line 512 as
\* test_cognito_srp_auth(config), or called with a username and a password.
TestCognitoSrpAuth ==
  /\ pc \in {"test_cognito_srp_auth", "srp"}
  /\ \E env \in SrpEnvs :
       \E run \in {test_cognito_srp_auth(PYCOGNITO_AVAILABLE, username, password, env)} :
         /\ results' = [results EXCEPT !.cognito = run.result]
         /\ calls' = run.calls
  /\ steps' = Append(steps, "test_cognito_srp_auth")
  /\ pc' = IF pc = "srp" THEN "returned" ELSE "summary"
  /\ UNCHANGED <<extractor_vars, PYCOGNITO_AVAILABLE, choice, username, password, summary>>

\* main, lines 521-538: the summary is printed and main returns.
PrintSummary ==
  /\ pc = "summary"
  /\ summary' = Summary(results, choice)
  /\ pc' = "done"
  /\ UNCHANGED <<extractor_vars, PYCOGNITO_AVAILABLE, choice, username, password, results, steps, calls>>

\* The next step of test_auth.py.
ExerciserNext ==
  \/ LoadConfig
  \/ TestPlainEndpoint
  \/ TestAuthEndpoint
  \/ TestUnauthenticatedEndpoint
  \/ TestUnauthenticatedAuthEndpoint
  \/ Choose
  \/ TestCognitoAuthEndpoint
  \/ TestCognitoSrpAuth
  \/ PrintSummary

Next == Handler \/ DecodeJwtPayload \/ ExerciserNext

Spec == Init /\ [][Next]_vars

\* The script runs on: every call returns or times out, and the user answers
\* the prompts.
FairSpec == Spec /\ WF_vars(ExerciserNext)

(***************************************************************************)
(* Properties                                                              *)
(***************************************************************************)
\* An invocation of handler has ended.
HandlerDone == pc \in {"responded", "raised"}

\* The headers dict of the event, as line 41 reads it.
HeadersOf(e) == IF e.headers = Absent THEN PyDict(<<>>) ELSE e.headers

\* Two characters that differ at most in case.
SameLetter(a, b) ==
  a = b \/ (a >= 65 /\ a <= 90 /\ b = a + 32) \/ (b >= 65 /\ b <= 90 /\ a = b + 32)

\* A header name that is x-cognito-id-token in some casing.
IsCognitoHeader(name) ==
  /\ Len(name) = Len(COGNITO_HEADER)
  /\ \A k \in 1..Len(name) : SameLetter(name[k], COGNITO_HEADER[k])

\* The positions of the Cognito headers of a request.
CognitoHeaders(e) ==
  IF HeadersOf(e)[1] # "dict" THEN {}
  ELSE {i \in 1..Len(HeadersOf(e)[2]) : IsCognitoHeader(HeadersOf(e)[2][i][1])}

\* The value of the first Cognito header of a request that has one.
FirstCognitoValue(e) == HeadersOf(e)[2][Min(CognitoHeaders(e))][2]

\* The response body's fields.
Body == response.body[2]

\* The context fallback cannot read the request context: requestContext, or
\* its identity, is there and is no dict.
ContextBroken(e) ==
  \/ e.requestContext[1] \notin {"absent", "record"}
  \/ /\ e.requestContext[1] = "record"
     /\ e.requestContext[2].identity[1] \notin {"absent", "record"}

\* C1: for every inbound request handler returns a response with statusCode
\* 200 and never raises; when the context fallback fails the response carries
\* a null user_info and an empty user_groups.
C1_HandlerAlwaysReturns200 ==
  HandlerDone =>
    /\ ~response.raised
    /\ response.statusCode = 200
    /\ (fallback /\ ContextBroken(event) =>
          Body.user_info = None /\ Body.user_groups = PyList(<<>>))

\* C2: get_user_info_from_token returns the no-identity sentinel only when no
\* x-cognito-id-token header is located or the payload decoding fails; for
\* every token whose middle segment decodes to a JSON object (any object) it
\* returns a user identity record with the group list, and handler does not
\* take the context fallback.
C2_SentinelOnlyWithoutTokenOrOnDecodeFailure ==
  HandlerDone =>
    /\ from_token = NoIdentity =>
         \/ CognitoHeaders(event) = {}
         \/ FirstCognitoValue(event)[1] # "str"
         \/ decode_jwt_payload(FirstCognitoValue(event)[2]) = None
    /\ original[1] = "dict" =>
         /\ from_token.user_info[1] = "record"
         /\ DOMAIN from_token.user_info[2] =
              {"username", "email", "email_verified", "sub", "aud", "iss", "token_use"}
         /\ ~fallback

\* The request's token is one of the malformed tokens.
MalformedRequest ==
  CognitoHeaders(event) # {} /\ FirstCognitoValue(event) \in MalformedTokens

\* The request without its Cognito headers.
WithoutCognitoHeaders(e) ==
  LET Other(h) == ~IsCognitoHeader(h[1])
  IN [e EXCEPT !.headers = PyDict(SelectSeq(e.headers[2], Other))]

\* The identity built only from the four requestContext.identity fields, a
\* missing or null field giving null; null when there is no identity block
\* to build it from.
IdentityFromContext(e) ==
  LET rc == e.requestContext
      id == IF rc[1] = "record" THEN rc[2].identity ELSE Absent
      Field(k) == IF id[1] = "absent" \/ id[2][k] = Absent THEN None ELSE id[2][k]
  IN IF ContextBroken(e) THEN None
     ELSE PyRecord([cognito_identity_id |-> Field("cognitoIdentityId"),
                    cognito_auth_provider |-> Field("cognitoAuthenticationProvider"),
                    source_ip |-> Field("sourceIp"),
                    user_agent |-> Field("userAgent")])

\* C3: a request whose x-cognito-id-token header carries a malformed token is
\* treated exactly like the same request without that header: the response has
\* user_info built only from the four requestContext.identity fields,
\* user_groups empty, is_admin and is_viewer false, and no error status.
C3_MalformedTokenIsAbsentToken ==
  HandlerDone /\ MalformedRequest =>
    /\ ~response.raised
    /\ response.statusCode = 200
    /\ response = handler(WithoutCognitoHeaders(event), AwsRequestId).response
    /\ Body.user_info = IdentityFromContext(event)
    /\ Body.user_groups = PyList(<<>>)
    /\ Body.is_admin = PyBool(FALSE)
    /\ Body.is_viewer = PyBool(FALSE)

\* The number of '.' delimiters of a token.
DotCount(s) == Cardinality({i \in 1..Len(s) : s[i] = 46})

\* The segment between the two delimiters of a three-segment token.
MiddleSegment(s) ==
  LET dots == {i \in 1..Len(s) : s[i] = 46}
  IN SubSeq(s, Min(dots) + 1, (CHOOSE i \in dots : i # Min(dots)) - 1)

\* A character of the base64 alphabets: A-Z a-z 0-9 + / - _
IsBase64Char(c) ==
  \/ (c >= 65 /\ c <= 90) \/ (c >= 97 /\ c <= 122) \/ (c >= 48 /\ c <= 57)
  \/ c \in {43, 47, 45, 95}

\* The number of '=' that bring a length to a multiple of 4.
PadsNeeded(n) == (4 - (n % 4)) % 4

\* A segment without '=' whose alphabet characters end in a group the padded
\* '=' do not complete: 1 left over, 2 with fewer than two '=', 3 with none.
UnfinishedQuad(seg) ==
  LET d == Cardinality({i \in 1..Len(seg) : IsBase64Char(seg[i])}) % 4
      p == PadsNeeded(Len(seg))
  IN /\ \A i \in 1..Len(seg) : seg[i] # 61
     /\ (d = 1 \/ (d = 2 /\ p < 2) \/ (d = 3 /\ p < 1))

\* Three-segment tokens whose middle segment is well-formed base64url of
\* bytes that are not UTF-8, or of a text that is not JSON.
UndecodableTokens ==
  {TokenOf(g) : g \in BadUtf8Segments} \cup {TokenOf(Segment(x)) : x \in BadJsonTexts}

IsBase64Url(seg) ==
  /\ \A i \in 1..Len(seg) : IsBase64Char(seg[i]) /\ seg[i] \notin {43, 47}
  /\ Len(seg) % 4 # 1

PriorityOrder ==
  << Str(<<"c", "o", "g", "n", "i", "t", "o", ":", "g", "r", "o", "u", "p", "s">>), Str(<<"g", "r", "o", "u", "p", "s">>), Str(<<"c", "u", "s", "t", "o", "m", ":", "g", "r", "o", "u", "p", "s">>), Str(<<"m", "e", "m", "b", "e", "r", "O", "f">>), Str(<<"r", "o", "l", "e", "s">>) >>

\* The position in PriorityOrder of the first claim that payload x has, 0 if
\* it has none of them.
FirstGroupClaim(x) ==
  LET present == {i \in 1..Len(PriorityOrder) :
                    \E k \in 1..Len(x[2]) : x[2][k][1] = PriorityOrder[i]}
  IN IF present = {} THEN 0 ELSE Min(present)

\* The value payload x gives the claim at position i of PriorityOrder.
ClaimValue(x, i) ==
  x[2][CHOOSE k \in 1..Len(x[2]) : x[2][k][1] = PriorityOrder[i]][2]

\* A request with a token made from a non-empty JSON object was answered.
ObjectAnswered == pc = "responded" /\ original[1] = "dict" /\ original[2] # <<>>

\* C5: the group list is taken from exactly one claim, the first of
\* cognito:groups, groups, custom:groups, memberOf, roles (in that order) that
\* the payload has, whatever the key order of the payload; later claims never
\* contribute, and if none of the five is present the group list is empty.
C5_GroupsFromFirstClaimInPriorityOrder ==
  ObjectAnswered =>
    /\ FirstGroupClaim(original) = 0 => from_token.groups = <<>>
    /\ FirstGroupClaim(original) # 0 =>
         from_token.groups = GroupsOfClaim(ClaimValue(original, FirstGroupClaim(original)))
    /\ Body.user_groups = PyList(from_token.groups)

\* C5, witness: the payload's first key is a group claim of lower priority
\* than a later key, the two give different groups, and the groups are those
\* of the later key.
C5_Witness ==
  /\ ObjectAnswered
  /\ Len(original[2]) = 2
  /\ original[2][1][1] = PriorityOrder[4]
  /\ original[2][2][1] = PriorityOrder[2]
  /\ GroupsOfClaim(original[2][1][2]) # GroupsOfClaim(original[2][2][2])
  /\ from_token.groups = GroupsOfClaim(original[2][2][2])
  /\ from_token.groups # <<>>

RECURSIVE JoinComma(_)
\* ",".join(ss)
JoinComma(ss) ==
  IF ss = <<>> THEN <<>>
  ELSE IF Len(ss) = 1 THEN ss[1]
  ELSE ss[1] \o <<44>> \o JoinComma(Tail(ss))

\* s without its whitespace.
NoSpace(s) == LET Inked(c) == c \notin Whitespace IN SelectSeq(s, Inked)

\* g is the comma-separated pieces of s, in order, each trimmed: a str for
\* every piece, none with a comma or with whitespace at either end, each a
\* substring of s, and together the text of s.
IsTrimmedPieces(s, g) ==
  /\ Len(g) = Cardinality({i \in 1..Len(s) : s[i] = 44}) + 1
  /\ \A i \in 1..Len(g) :
       /\ g[i][1] = "str"
       /\ \A k \in 1..Len(g[i][2]) : g[i][2][k] # 44
       /\ g[i][2] # <<>> =>
            g[i][2][1] \notin Whitespace /\ g[i][2][Len(g[i][2])] \notin Whitespace
       /\ \E a \in 1..(Len(s) + 1) : SubSeq(s, a, a + Len(g[i][2]) - 1) = g[i][2]
  /\ JoinComma([i \in 1..Len(g) |-> NoSpace(g[i][2])]) = NoSpace(s)

\* C6: when the matched group claim's value is a list, the group list is that
\* list verbatim; when it is a string, the group list is its comma-separated
\* pieces in order, each trimmed of surrounding whitespace, so "Admin, Viewer"
\* yields ["Admin", "Viewer"] and both role flags are true.
C6_ListVerbatimStringSplitAndTrimmed ==
  ObjectAnswered /\ FirstGroupClaim(original) # 0 =>
    LET value == ClaimValue(original, FirstGroupClaim(original))
        groups == Body.user_groups[2]
    IN /\ value[1] = "list" => groups = value[2]
       /\ value[1] = "str" => IsTrimmedPieces(value[2], groups)
       /\ value = PyStr(Str(<<"A", "d", "m", "i", "n", ",", " ", "V", "i", "e", "w", "e", "r">>)) =>
            /\ groups = <<PyStr(Str(<<"A", "d", "m", "i", "n">>)), PyStr(Str(<<"V", "i", "e", "w", "e", "r">>))>>
            /\ Body.is_admin = PyBool(TRUE)
            /\ Body.is_viewer = PyBool(TRUE)
       /\ value = PyStr(Str(<<" ", "V", "i", "e", "w", "e", "r", " ", ",", ",", " ", "a", " ", "b">>)) =>
            groups = <<PyStr(Str(<<"V", "i", "e", "w", "e", "r">>)), PyStr(<<>>), PyStr(Str(<<"a", " ", "b">>))>>

\* C6, witness: a string claim with whitespace around its pieces was split
\* into trimmed groups.
C6_Witness ==
  /\ ObjectAnswered
  /\ FirstGroupClaim(original) # 0
  /\ ClaimValue(original, FirstGroupClaim(original)) = PyStr(Str(<<"A", "d", "m", "i", "n", ",", " ", "V", "i", "e", "w", "e", "r">>))
  /\ Body.user_groups = PyList(<<PyStr(Str(<<"A", "d", "m", "i", "n">>)), PyStr(Str(<<"V", "i", "e", "w", "e", "r">>))>>)
  /\ Body.is_admin = PyBool(TRUE)

\* Some element of the list xs is exactly the string of these characters.
HasString(xs, chars) ==
  \E i \in 1..Len(xs) : xs[i][1] = "str" /\ xs[i][2] = chars

\* C7: in every response, is_admin is true exactly when the string "Admin" is
\* an element of user_groups and is_viewer exactly when "Viewer" is; the match
\* is exact and case-sensitive, so cognito:groups = ["Admin", "X"] gives
\* is_admin true and is_viewer false.
C7_RoleFlagsAreExactMembership ==
  pc = "responded" =>
    /\ Body.is_admin = PyBool(HasString(Body.user_groups[2], Str(<<"A", "d", "m", "i", "n">>)))
    /\ Body.is_viewer = PyBool(HasString(Body.user_groups[2], Str(<<"V", "i", "e", "w", "e", "r">>)))
    /\ original = PyDict(<<<<Str(<<"c", "o", "g", "n", "i", "t", "o", ":", "g", "r", "o", "u", "p", "s">>), PyList(<<PyStr(Str(<<"A", "d", "m", "i", "n">>)), PyStr(Str(<<"X">>))>>)>>>>) =>
         Body.is_admin = PyBool(TRUE) /\ Body.is_viewer = PyBool(FALSE)

\* C7, witness: a response whose groups hold " Admin", "admin" and "Admins"
\* but not "Admin", with is_admin false, and hold "Viewer", with is_viewer true.
C7_Witness ==
  /\ pc = "responded"
  /\ HasString(Body.user_groups[2], Str(<<" ", "A", "d", "m", "i", "n">>))
  /\ HasString(Body.user_groups[2], Str(<<"a", "d", "m", "i", "n">>))
  /\ HasString(Body.user_groups[2], Str(<<"A", "d", "m", "i", "n", "s">>))
  /\ Body.is_admin = PyBool(FALSE)
  /\ Body.is_viewer = PyBool(TRUE)

\* C8: the token locator matches the header name x-cognito-id-token whatever
\* its casing: a well-formed token under any casing is found and extraction
\* proceeds as under the lower-case name; when several names match, the value
\* of the first in iteration order is the one used; when none matches, the
\* not-found result is returned.
C8_TokenLocatedCaseInsensitivelyFirstMatch ==
  HandlerDone =>
    /\ CognitoHeaders(event) = {} => from_token = NoIdentity
    /\ CognitoHeaders(event) # {} =>
         /\ TokenLocator(HeadersOf(event)) = FirstCognitoValue(event)
         /\ from_token =
              get_user_info_from_token(
                Event(OneHeader(COGNITO_HEADER, FirstCognitoValue(event)), Absent))
         /\ FirstCognitoValue(event) = AdminToken =>
              /\ from_token.groups = <<PyStr(Str(<<"A", "d", "m", "i", "n">>))>>
              /\ from_token.user_info[2].sub = PyStr(Str(<<"u", "1">>))
         /\ FirstCognitoValue(event) = ViewerToken =>
              from_token.groups = <<PyStr(Str(<<"V", "i", "e", "w", "e", "r">>))>>

\* C8, witness: two headers match, X-COGNITO-ID-TOKEN with the viewer's token
\* first and then another casing with the administrator's, and the viewer's
\* groups were extracted.
C8_Witness ==
  /\ HandlerDone
  /\ HeadersOf(event)[1] = "dict"
  /\ Len(HeadersOf(event)[2]) = 2
  /\ HeadersOf(event)[2][1] = <<Str(<<"X", "-", "C", "O", "G", "N", "I", "T", "O", "-", "I", "D", "-", "T", "O", "K", "E", "N">>), ViewerToken>>
  /\ HeadersOf(event)[2][2][2] = AdminToken
  /\ CognitoHeaders(event) = {1, 2}
  /\ from_token.groups = <<PyStr(Str(<<"V", "i", "e", "w", "e", "r">>))>>

\* C9: round trip: a JSON object encoded as the base64url (padding stripped)
\* middle segment of a synthetic three-segment token is decoded by
\* decode_jwt_payload to an object equal to the original.
C9_RoundTrip ==
  pc = "decoded" /\ original # Absent => payload = original

\* C9, witness: an object of two claims, whose segment needs padding, came
\* back from the decoder.
C9_Witness ==
  /\ pc = "decoded"
  /\ original[1] = "dict"
  /\ Len(original[2]) >= 2
  /\ Len(MiddleSegment(token)) % 4 # 0
  /\ payload = original

\* C10: before base64 decoding, decode_jwt_payload appends exactly
\* (4 - len % 4) % 4 '=' characters to the payload segment: none when the
\* length is a multiple of 4, else the 1, 2 or 3 required, so the padded
\* segment's length is always a multiple of 4.
C10_PaddingCount ==
  pc = "decoded" /\ DotCount(token) = 2 =>
    LET seg == MiddleSegment(token)
    IN /\ payload_part = seg \o Repeat(61, PadsNeeded(Len(seg)))
       /\ PadsNeeded(Len(seg)) \in 0..3
       /\ Len(seg) % 4 = 0 => payload_part = seg
       /\ Len(payload_part) % 4 = 0

\* C10, witness: a segment one longer than a multiple of 4 got three '='.
C10_Witness ==
  /\ pc = "decoded"
  /\ DotCount(token) = 2
  /\ Len(MiddleSegment(token)) % 4 = 1
  /\ Len(payload_part) = Len(MiddleSegment(token)) + 3
  /\ SubSeq(payload_part, Len(payload_part) - 2, Len(payload_part)) = <<61, 61, 61>>

\* The lines of the summary that mark a step failed, by their labels.
FailedLabels == {summary[i][1] : i \in {k \in 1..Len(summary) : summary[k][2] = "FAILED"}}

\* main ran the authenticated Cognito step.
CognitoStepRun ==
  \E i \in 1..Len(steps) :
    steps[i] \in {"test_cognito_auth_endpoint", "test_cognito_srp_auth"}

\* The Cognito step failed with an error: a call raised and the step
\* returned None.
CognitoCallRaised ==
  /\ results.cognito = None
  /\ \E i \in 1..Len(calls) : calls[i][2] = "raised"

\* C11: in the flow exerciser, every test step whose call fails with a network
\* or SDK error (the step function catches the exception and returns None) is
\* marked FAILED in the printed summary; this holds for each of the steps run,
\* including the authenticated Cognito step when the user chose to run it, and
\* the process does not abort: main reaches its end with the summary printed.
C11_FailedStepMarkedFailedInSummary ==
  pc = "done" =>
    /\ results.plain = None => "Plain endpoint (no auth)" \in FailedLabels
    /\ results.iam_auth = None => "IAM auth endpoint" \in FailedLabels
    /\ results.unauthenticated_public = None =>
         "Unauthenticated /test/public" \in FailedLabels
    /\ results.unauthenticated_auth = None =>
         "Unauthenticated /test/auth (expect 403)" \in FailedLabels
    /\ CognitoStepRun /\ CognitoCallRaised =>
         \/ "Authenticated Cognito Password" \in FailedLabels
         \/ "Authenticated Cognito SRP" \in FailedLabels

\* The four tests main always runs, in its order.
FixedOrder ==
  << "test_plain_endpoint", "test_auth_endpoint",
     "test_unauthenticated_endpoint", "test_unauthenticated_auth_endpoint" >>

\* A run of main whose configuration has loaded.
MainRunning ==
  pc \in {FixedOrder[i] : i \in 1..Len(FixedOrder)}
           \cup {"choose", "test_cognito_auth_endpoint", "test_cognito_srp_auth",
                 "summary", "done"}

\* The tests run so far are the first of the fixed order, each once, then at
\* most one Cognito step.
StepsInOrder ==
  /\ Len(steps) <= Len(FixedOrder) + 1
  /\ \A i \in 1..Len(steps) :
       IF i <= Len(FixedOrder) THEN steps[i] = FixedOrder[i]
       ELSE steps[i] \in {"test_cognito_auth_endpoint", "test_cognito_srp_auth"}

\* At the end of main all four tests have run, then the Cognito step if one
\* was chosen, and the summary is printed.
RunComplete ==
  /\ SubSeq(steps, 1, Len(FixedOrder)) = FixedOrder
  /\ Len(steps) =
       Len(FixedOrder) + (IF ChosenStep(choice, PYCOGNITO_AVAILABLE) = "skip" THEN 0 ELSE 1)
  /\ Len(steps) > Len(FixedOrder) => steps[Len(steps)] = ChosenStep(choice, PYCOGNITO_AVAILABLE)
  /\ Len(summary) >= Len(FixedOrder)

\* C12: once configuration has loaded, the flow exerciser runs its tests
\* strictly sequentially in the fixed order plain endpoint, IAM-auth endpoint,
\* unauthenticated /test/public, unauthenticated /test/auth, then the optional
\* Cognito step; a failure of any test never prevents the following tests or
\* the summary from running (main always reaches its end, all tests run); no
\* test is retried.
C12_TestsRunInOrderWhateverFails ==
  /\ [](MainRunning => StepsInOrder /\ (pc = "done" => RunComplete))
  /\ (pc = "test_plain_endpoint") ~> (pc = "done")

\* C12, witness: main ended with the summary printed after every one of the
\* four tests failed, and the Cognito step ran and failed after them.
C12_Witness ==
  /\ pc = "done"
  /\ results.plain = None
  /\ results.iam_auth = None
  /\ results.unauthenticated_public = None
  /\ results.unauthenticated_auth = None
  /\ results.cognito = None
  /\ Len(steps) = 5
  /\ Len(summary) = 4

\* C13: the group-claim scan stops at the first of the five claim names that
\* is present in the payload even when its value is neither a list nor a
\* string (a number, boolean, object or null): the group list is then empty
\* and both role flags are false, even if a claim later in the priority order
\* holds a usable list or string.
C13_UnusableFirstClaimShadowsLaterClaims ==
  /\ ObjectAnswered
  /\ FirstGroupClaim(original) # 0
  /\ ClaimValue(original, FirstGroupClaim(original))[1] \notin {"list", "str"}
  => /\ from_token.groups = <<>>
     /\ Body.user_groups = PyList(<<>>)
     /\ Body.is_admin = PyBool(FALSE)
     /\ Body.is_viewer = PyBool(FALSE)

\* C13, witness: the first claim present is null, a claim later in the order
\* holds a list with "Admin", and the response has no groups and false flags.
C13_Witness ==
  /\ ObjectAnswered
  /\ FirstGroupClaim(original) # 0
  /\ ClaimValue(original, FirstGroupClaim(original)) = None
  /\ \E j \in (FirstGroupClaim(original) + 1)..Len(PriorityOrder) :
       /\ \E k \in 1..Len(original[2]) : original[2][k][1] = PriorityOrder[j]
       /\ ClaimValue(original, j)[1] = "list"
       /\ HasString(ClaimValue(original, j)[2], Str(<<"A", "d", "m", "i", "n">>))
  /\ Body.user_groups = PyList(<<>>)
  /\ Body.is_admin = PyBool(FALSE)

\* test_cognito_srp_auth was called and has returned.
SrpReturned == \E i \in 1..Len(steps) : steps[i] = "test_cognito_srp_auth"

\* The positions in the log of the entries of a function and an event.
Entries(flow, op) == {i \in 1..Len(calls) : calls[i][1] = flow /\ calls[i][2] = op}

\* The SRP authentication call was made and raised.
SrpAuthenticationRaised ==
  \E i \in Entries("srp", "authenticate") :
    i < Len(calls) /\ calls[i + 1][1] = "srp" /\ calls[i + 1][2] = "raised"

\* The SRP authentication call was made and returned.
SrpAuthenticationSucceeded ==
  Entries("srp", "authenticate") # {} /\ ~SrpAuthenticationRaised

\* The identity-pool calls and the API request of the SRP path itself.
SrpOwnCalls ==
  Entries("srp", "get_id") \cup Entries("srp", "get_credentials_for_identity")
    \cup Entries("srp", "requests.get")

\* The password flow was invoked exactly once, with this username and
\* password, what it returned is what test_cognito_srp_auth returned, and the
\* SRP path issued none of its own calls.
FellBackOnce(user, pass) ==
  /\ Cardinality(Entries("password", "invoked")) = 1
  /\ \A i \in Entries("password", "invoked") : calls[i][3] = user /\ calls[i][4] = pass
  /\ Cardinality(Entries("password", "returned")) = 1
  /\ \A i \in Entries("password", "returned") : calls[i][3] = results.cognito
  /\ SrpOwnCalls = {}

\* C14: in test_cognito_srp_auth, when the pycognito library is unavailable
\* or the SRP authentication call raises, the password flow
\* test_cognito_auth_endpoint is invoked exactly once with the same username
\* and password and its result is returned; in that case the SRP path's own
\* identity-pool calls and API request are never issued; and when SRP
\* authentication succeeds the password flow is never invoked.
C14_SrpFallsBackToPasswordFlowOnce ==
  SrpReturned =>
    /\ ~PYCOGNITO_AVAILABLE =>
         FellBackOnce(username, password) /\ Entries("srp", "authenticate") = {}
    /\ SrpAuthenticationRaised =>
         \A i \in Entries("srp", "authenticate") :
           /\ FellBackOnce(calls[i][3], calls[i][4])
           /\ Truthy(username) => calls[i][3] = username
           /\ Truthy(password) => calls[i][4] = password
    /\ SrpAuthenticationSucceeded => Entries("password", "invoked") = {}

\* C14, witness: called with a username and a password, the SRP
\* authentication raised, the password flow ran with them and its 200
\* response was returned.
C14_Witness ==
  /\ SrpReturned
  /\ PYCOGNITO_AVAILABLE
  /\ Truthy(username) /\ Truthy(password)
  /\ SrpAuthenticationRaised
  /\ \E i \in Entries("password", "initiate_auth") :
       calls[i][3] = username /\ calls[i][4] = password
  /\ Entries("password", "requests.get") # {}
  /\ results.cognito = HttpResponse(200)

====
